---------------------------- MODULE Spec2Model ----------------------------
(***************************************************************************)
(* Model of the two programs of Forecast/:                                 *)
(*   generate_square_corners.py  (compute_corners and its solver wrapper)  *)
(*   get_met_forecast_data.py    (bounds, its solver wrapper, and main)    *)
(*                                                                         *)
(* Python floats are modelled as sign-magnitude fixed-point numbers with a *)
(* NaN, so that -0.0 and NaN behave as they do in the code.  Angles are in *)
(* whole degrees, lengths in 1/KmScale km.  The geodesic solver            *)
(* (geographiclib's Geodesic.WGS84.Direct) is outside the repository: a    *)
(* query with a non-zero distance may be answered by any point of the      *)
(* grid LatGrid x LonGrid.                                                 *)
(***************************************************************************)
EXTENDS Integers, Sequences, FiniteSets

VARIABLES
    prog,          \* which program runs: "corners" or "forecast"
    a,             \* the arguments of the run
    pc,            \* position in the program
    outcome,       \* "running", "returned", or the exception that ended the run
    queries,       \* the solver queries issued so far, in order
    g,             \* the solver's raw reply to the last query (local g / r)
    pt,            \* what the wrapper handed back for that reply
    half_side_km,  \* compute_corners: local half_side_km
    out,           \* compute_corners: local list out
    corners,       \* compute_corners: the list handed to the caller
    box,           \* main: (top, bottom, left, right) as returned by bounds
    seam,          \* history: norm360(w) > norm360(e) held before the swap
    intervals,     \* main: total hours of the single interval item
    cycle,         \* main: the cycle hour handed to the downloader
    kv,            \* main: the values passed to write_cnf
    cnf_open,      \* the config file is open for writing
    cnf,           \* the lines of the config file, by key
    downloads      \* how many times the downloader subprocess was started

vars == <<prog, a, pc, outcome, queries, g, pt, half_side_km, out, corners,
          box, seam, intervals, cycle, kv, cnf_open, cnf, downloads>>

---------------------------------------------------------------------------
(* Bounds of the model *)
MaxRadiusKm == 1
KmScale == 10
LatStep == 90
LonStep == 180
MaxDays == 1

---------------------------------------------------------------------------
(* Python floats *)

NaN == [nan |-> TRUE, neg |-> FALSE, mag |-> 0]

Fl(i) == [nan |-> FALSE, neg |-> i < 0, mag |-> IF i < 0 THEN -i ELSE i]

NegZero == [nan |-> FALSE, neg |-> TRUE, mag |-> 0]

Val(x) == IF x.neg THEN -x.mag ELSE x.mag

\* unary minus: flips the sign bit, also of a zero
FNeg(x) == IF x.nan THEN NaN ELSE [x EXCEPT !.neg = ~x.neg]

\* comparisons are false as soon as one side is NaN
FGt(x, y) == ~x.nan /\ ~y.nan /\ Val(x) > Val(y)

FGe(x, y) == ~x.nan /\ ~y.nan /\ Val(x) >= Val(y)

\* max(x, y) and min(x, y) of Python: x unless y compares beyond it
PyMax(x, y) == IF FGt(y, x) THEN y ELSE x

PyMin(x, y) == IF FGt(x, y) THEN y ELSE x

ISqrt(k) == CHOOSE r \in 0..k : r * r <= k /\ (r + 1) * (r + 1) > k

\* math.hypot: sign-blind, NaN in gives NaN out
Hypot(e, n) ==
    IF e.nan \/ n.nan THEN NaN ELSE Fl(ISqrt(e.mag * e.mag + n.mag * n.mag))

\* x / math.sqrt(2.0): keeps the sign bit
DivSqrt2(x) ==
    IF x.nan THEN NaN ELSE [x EXCEPT !.mag = ISqrt((x.mag * x.mag) \div 2)]

\* math.degrees(math.atan2(e, n)), an angle in [-180, 180] carrying e's sign
\* (exact on the axes and the diagonals, which is all compute_corners asks
\* for; elsewhere the whole degree below the middle of the octant)
Atan2Deg(e, n) ==
    IF e.nan \/ n.nan THEN NaN
    ELSE LET d == IF e.mag = 0 THEN (IF n.neg THEN 180 ELSE 0)
                  ELSE IF n.mag = 0 THEN 90
                  ELSE IF e.mag = n.mag THEN (IF n.neg THEN 135 ELSE 45)
                  ELSE IF e.mag < n.mag THEN (IF n.neg THEN 158 ELSE 22)
                  ELSE (IF n.neg THEN 113 ELSE 67)
         IN  [nan |-> FALSE, neg |-> e.neg, mag |-> d]

\* km * 1000.0: metres
Metres(km) == IF km.nan THEN NaN ELSE [km EXCEPT !.mag = (km.mag * 1000) \div KmScale]

---------------------------------------------------------------------------
(* The geodesic solver *)

LatGrid == {-90, 90} \cup {x \in -90..90 : x % LatStep = 0}

LonGrid == {-180, 180} \cup {x \in -180..180 : x % LonStep = 0}

\* the longitudes of [-180, 180] that are lon modulo 360
AngNormalize(lon) == {x \in -180..180 : (x - lon) % 360 = 0}

Raised == [raised |-> TRUE, lat2 |-> NaN, lon2 |-> NaN]

Reply(la, lo) == [raised |-> FALSE, lat2 |-> la, lon2 |-> lo]

\* Geodesic.WGS84.Direct(lat1, lon1, azi1, s12): the replies it may give.
\* A non-finite argument either comes back as a NaN point (NaN goes through
\* the arithmetic) or raises (math.fmod and math.sin raise on an infinity);
\* a zero distance gives the start point, its longitude brought into
\* [-180, 180]; any other query is answered by some point of the grid.
Direct(lat1, lon1, azi1, s12) ==
    IF lat1.nan \/ lon1.nan \/ azi1.nan \/ s12.nan
    THEN {Raised, Reply(NaN, NaN)}
    ELSE IF s12.mag = 0
    THEN {Reply(lat1, Fl(x)) : x \in AngNormalize(Val(lon1))}
    ELSE {Reply(Fl(la), Fl(lo)) : la \in LatGrid, lo \in LonGrid}

Query(lat1, lon1, azi1, s12) == [lat |-> lat1, lon |-> lon1, az |-> azi1, s |-> s12]

NoReply == Reply(NaN, NaN)

NoPoint == [lat |-> NaN, lon |-> NaN]

---------------------------------------------------------------------------
(* generate_square_corners.py *)

ValidModes == {"halfside", "enclose-circle", "inscribe-in-circle"}

\* variant: atan2 taken as (north, east)
bearing_deg_from_NE(east_km, north_km) ==
    LET d == Atan2Deg(north_km, east_km)
    IN  IF d.nan THEN NaN ELSE Fl((Val(d) + 360) % 360)

bearing_deg_from_EN(east_km, north_km) ==
    LET d == Atan2Deg(east_km, north_km)
    IN  IF d.nan THEN NaN ELSE Fl((Val(d) + 360) % 360)

\* variant: the shift by 180 is not taken back
lon_norm_unshifted(lon2) == IF lon2.nan THEN NaN ELSE Fl((Val(lon2) + 180) % 360)

\* ((lon2 + 180.0) % 360.0) - 180.0
lon_norm(lon2) == IF lon2.nan THEN NaN ELSE Fl(((Val(lon2) + 180) % 360) - 180)

\* variant: the solver's longitude is handed back as it came
direct_from_center_raw(lat, lon, azimuth_deg, distance_km) ==
    {[g |-> r, lat |-> r.lat2, lon |-> r.lon2] :
        r \in Direct(lat, lon, azimuth_deg, Metres(distance_km))}

\* the outcomes of one call: the raw reply and, unless the solver raised,
\* the dict handed back
direct_from_center(lat, lon, azimuth_deg, distance_km) ==
    {[g |-> r, lat |-> r.lat2, lon |-> lon_norm(r.lon2)] :
        r \in Direct(lat, lon, azimuth_deg, Metres(distance_km))}

\* variant: enclose-circle takes the half side of the inscribed square
half_side_enclose_inscribed(radius_km, mode) ==
    IF mode = "halfside" THEN <<radius_km>>
    ELSE IF mode = "enclose-circle" THEN <<DivSqrt2(radius_km)>>
    ELSE IF mode = "inscribe-in-circle" THEN <<DivSqrt2(radius_km)>>
    ELSE <<>>

\* variant: an unrecognised mode falls back to the radius
half_side_default(radius_km, mode) ==
    IF mode = "inscribe-in-circle" THEN <<DivSqrt2(radius_km)>> ELSE <<radius_km>>

\* variant: the sign of the radius is dropped
half_side_abs(radius_km, mode) ==
    LET r == IF radius_km.nan THEN NaN ELSE [radius_km EXCEPT !.neg = FALSE]
    IN  IF mode = "halfside" THEN <<r>>
        ELSE IF mode = "enclose-circle" THEN <<r>>
        ELSE IF mode = "inscribe-in-circle" THEN <<DivSqrt2(r)>>
        ELSE <<>>

\* lines 132-141: <<half_side_km>>, or <<>> where the code raises ValueError
half_side(radius_km, mode) ==
    IF mode = "halfside" THEN <<radius_km>>
    ELSE IF mode = "enclose-circle" THEN <<radius_km>>
    ELSE IF mode = "inscribe-in-circle" THEN <<DivSqrt2(radius_km)>>
    ELSE <<>>

corners_EN(h) ==
    << <<"NW", FNeg(h), h>>,
       <<"NE", h, h>>,
       <<"SE", h, FNeg(h)>>,
       <<"SW", FNeg(h), FNeg(h)>> >>

Corner(c, p) ==
    [name |-> c[1], east_km |-> c[2], north_km |-> c[3],
     bearing_deg |-> bearing_deg_from_EN(c[2], c[3]),
     distance_km |-> Hypot(c[2], c[3]),
     lat |-> p.lat, lon |-> p.lon]

\* compute_corners, lines 132-151
CornersEnter ==
    /\ prog = "corners" /\ pc = "mode"
    /\ LET h == half_side(a.radius_km, a.mode)
       IN  IF h # <<>>
           THEN /\ half_side_km' = h[1]
                /\ pc' = "loop"
                /\ UNCHANGED outcome
           ELSE /\ outcome' = "ValueError"
                /\ pc' = "done"
                /\ UNCHANGED half_side_km
    /\ UNCHANGED <<prog, a, queries, g, pt, out, corners, box, seam, intervals,
                   cycle, kv, cnf_open, cnf, downloads>>

\* one pass of the loop, lines 154-168
CornersLoop ==
    /\ prog = "corners" /\ pc = "loop" /\ Len(out) < 4
    /\ LET c == corners_EN(half_side_km)[Len(out) + 1]
           dist_km == Hypot(c[2], c[3])
           az_deg == bearing_deg_from_EN(c[2], c[3])
       IN  /\ queries' = Append(queries, Query(a.lat, a.lon, az_deg, Metres(dist_km)))
           /\ \E p \in direct_from_center(a.lat, a.lon, az_deg, dist_km) :
                /\ g' = p.g
                /\ IF p.g.raised
                   THEN /\ outcome' = "GeodesicError"
                        /\ pc' = "done"
                        /\ UNCHANGED <<out, pt>>
                   ELSE /\ out' = Append(out, Corner(c, p))
                        /\ pt' = [lat |-> p.lat, lon |-> p.lon]
                        /\ UNCHANGED <<outcome, pc>>
    /\ UNCHANGED <<prog, a, half_side_km, corners, box, seam, intervals,
                   cycle, kv, cnf_open, cnf, downloads>>

\* return out, line 169
CornersReturn ==
    /\ prog = "corners" /\ pc = "loop" /\ Len(out) = 4
    /\ corners' = out
    /\ outcome' = "returned"
    /\ pc' = "done"
    /\ UNCHANGED <<prog, a, queries, g, pt, half_side_km, out, box, seam,
                   intervals, cycle, kv, cnf_open, cnf, downloads>>

---------------------------------------------------------------------------
(* get_met_forecast_data.py *)

\* x = lon % 360.0; x if x >= 0 else x + 360
norm360(lon) ==
    IF lon.nan THEN NaN
    ELSE LET x == Val(lon) % 360 IN Fl(IF x >= 0 THEN x ELSE x + 360)

\* the outcomes of one call of dest: the raw reply and, unless the solver
\* raised, the pair (lat2, ((lon2 + 180) % 360) - 180)
dest(lat, lon, az, km) ==
    {[g |-> r, lat |-> r.lat2,
      lon |-> IF r.lon2.nan THEN NaN ELSE Fl(((Val(r.lon2) + 180) % 360) - 180)] :
        r \in Direct(lat, lon, az, Metres(km))}

\* variant: left and right are not swapped
box_of_noswap(n, s, e, w) ==
    <<PyMax(n.lat, s.lat), PyMin(n.lat, s.lat), norm360(w.lon), norm360(e.lon)>>

\* lines 30-33 of bounds, from the four probes
box_of(n, s, e, w) ==
    LET top == PyMax(n.lat, s.lat)
        bottom == PyMin(n.lat, s.lat)
        left == norm360(w.lon)
        right == norm360(e.lon)
    IN  IF FGt(left, right) THEN <<top, bottom, right, left>>
        ELSE <<top, bottom, left, right>>

\* the azimuths of the probes n, s, e, w, in the order of the calls
ProbeAz == <<0, 180, 90, 270>>

\* bounds(clat, clon, rad): every way the call can end.  calls counts the
\* solver queries issued; a probe whose solve raises ends the call there.
bounds(clat, clon, rad) ==
    LET P == [k \in 1..4 |-> dest(clat, clon, Fl(ProbeAz[k]), rad)]
        Ok(k) == {x \in P[k] : ~x.g.raised}
    IN  {[raised |-> FALSE, calls |-> 4, g |-> w.g,
          pt |-> [lat |-> w.lat, lon |-> w.lon],
          box |-> box_of(n, s, e, w),
          seam |-> FGt(norm360(w.lon), norm360(e.lon))] :
            n \in Ok(1), s \in Ok(2), e \in Ok(3), w \in Ok(4)}
        \cup
        {[raised |-> TRUE, calls |-> k, g |-> Raised, pt |-> NoPoint,
          box |-> <<>>, seam |-> FALSE] :
            k \in {j \in 1..4 : /\ \E x \in P[j] : x.g.raised
                                /\ \A i \in 1..(j - 1) : Ok(i) # {}}}

\* int(round(x)) of a length given in km: round half to even
RoundKm(x) ==
    LET q == x.mag \div KmScale
        r == x.mag % KmScale
        m == IF 2 * r > KmScale \/ (2 * r = KmScale /\ q % 2 = 1) THEN q + 1 ELSE q
    IN  IF x.neg THEN -m ELSE m

\* the keys main passes to write_cnf, in order
CnfKeys ==
    <<"FOLDER_NAME", "TOP", "BOTTOM", "LEFT", "RIGHT", "INTERVALS",
      "RESOLUTION", "VALID_HOURS", "WRF_DEST", "CENTER_LAT", "CENTER_LON",
      "RADIUS_KM", "START_DATE", "END_DATE", "RUN_DAYS", "START_YEAR",
      "START_MONTH", "START_DAY", "START_HOUR", "END_YEAR", "END_MONTH",
      "END_DAY", "END_HOUR", "FORECAST_DAYS", "GEOG_DATA_PATH", "CASE_NAME",
      "CYCLE">>

\* the file write_cnf leaves when nothing fails: the header, then each key
CompleteCnf == <<"#">> \o CnfKeys

ForecastUnchanged == UNCHANGED <<prog, a, half_side_km, out, corners>>

\* a = cli(), line 91: argparse exits on a command line it rejects
Cli ==
    /\ prog = "forecast" /\ pc = "cli" /\ outcome = "running"
    /\ IF a.argv_ok THEN pc' = "bounds" /\ UNCHANGED outcome
       ELSE outcome' = "SystemExit" /\ UNCHANGED pc
    /\ ForecastUnchanged
    /\ UNCHANGED <<queries, g, pt, box, seam, intervals, cycle, kv, cnf_open,
                   cnf, downloads>>

\* top,bottom,left,right = bounds(a.lat,a.lon,a.radius_km), line 92
Bounds ==
    /\ prog = "forecast" /\ pc = "bounds" /\ outcome = "running"
    /\ \E b \in bounds(a.lat, a.lon, a.radius_km) :
         /\ queries' = [k \in 1..b.calls |->
                           Query(a.lat, a.lon, Fl(ProbeAz[k]), Metres(a.radius_km))]
         /\ g' = b.g
         /\ pt' = b.pt
         /\ IF b.raised
            THEN /\ outcome' = "GeodesicError"
                 /\ UNCHANGED <<pc, box, seam>>
            ELSE /\ box' = b.box
                 /\ seam' = b.seam
                 /\ pc' = "intervals"
                 /\ UNCHANGED outcome
    /\ ForecastUnchanged
    /\ UNCHANGED <<intervals, cycle, kv, cnf_open, cnf, downloads>>

\* make_intervals(total_d, step_h), lines 35-38, called at line 93
make_intervals(total_d, step_h) ==
    LET total_h == total_d * 24
    IN  IF total_h % step_h # 0 THEN (total_h \div step_h) * step_h ELSE total_h

MakeIntervals ==
    /\ prog = "forecast" /\ pc = "intervals" /\ outcome = "running"
    /\ IF a.interval_hours = 0
       THEN outcome' = "ZeroDivisionError" /\ UNCHANGED <<pc, intervals>>
       ELSE /\ intervals' = make_intervals(a.forecast_days, a.interval_hours)
            /\ pc' = "cycle"
            /\ UNCHANGED outcome
    /\ ForecastUnchanged
    /\ UNCHANGED <<queries, g, pt, box, seam, cycle, kv, cnf_open, cnf, downloads>>

\* lines 96-101: start_date is an hour count when strptime accepts it
Cycle ==
    /\ prog = "forecast" /\ pc = "cycle" /\ outcome = "running"
    /\ IF a.cycle_auto /\ ~a.start_ok
       THEN outcome' = "ValueError" /\ UNCHANGED <<pc, cycle>>
       ELSE /\ cycle' = IF a.cycle_auto
                        THEN a.start_date - ((a.start_date % 24) % 6)
                        ELSE a.cycle
            /\ pc' = "dates"
            /\ UNCHANGED outcome
    /\ ForecastUnchanged
    /\ UNCHANGED <<queries, g, pt, box, seam, intervals, kv, cnf_open, cnf,
                   downloads>>

\* snap_end(start_dt, days, interval_sec), lines 57-63, in hours
snap_end(start_dt, days, interval_h) ==
    LET end == start_dt + days * 24
        span == end - start_dt
    IN  end - (span % interval_h)

\* lines 104-140: the dates, then the arguments of write_cnf in order;
\* int(round(a.radius_km)) raises ValueError on a NaN
BuildKv ==
    /\ prog = "forecast" /\ pc = "dates" /\ outcome = "running"
    /\ IF ~a.start_ok \/ a.radius_km.nan
       THEN outcome' = "ValueError" /\ UNCHANGED <<pc, kv>>
       ELSE /\ LET end_dt == snap_end(a.start_date, a.forecast_days, a.interval_hours)
               IN  kv' = [TOP |-> box[1], BOTTOM |-> box[2], LEFT |-> box[3],
                          RIGHT |-> box[4], INTERVALS |-> intervals,
                          RADIUS_KM |-> RoundKm(a.radius_km),
                          START_DATE |-> a.start_date, END_DATE |-> end_dt,
                          RUN_DAYS |-> (end_dt - a.start_date) \div 24,
                          CYCLE |-> cycle]
            /\ pc' = "open"
            /\ UNCHANGED outcome
    /\ ForecastUnchanged
    /\ UNCHANGED <<queries, g, pt, box, seam, intervals, cycle, cnf_open, cnf,
                   downloads>>

\* open(path, "w"), line 45: truncates the file, or fails
OpenCnf ==
    /\ prog = "forecast" /\ pc = "open" /\ outcome = "running"
    /\ \/ /\ cnf_open' = TRUE
          /\ cnf' = <<>>
          /\ pc' = "write"
          /\ UNCHANGED outcome
       \/ /\ outcome' = "OSError"
          /\ UNCHANGED <<pc, cnf_open, cnf>>
    /\ ForecastUnchanged
    /\ UNCHANGED <<queries, g, pt, box, seam, intervals, cycle, kv, downloads>>

\* one f.write, lines 46 and 55: the header, then the keys in order; a
\* failed write leaves the with block, which closes the file
WriteCnf ==
    /\ prog = "forecast" /\ pc = "write" /\ outcome = "running"
    /\ Len(cnf) < Len(CompleteCnf)
    /\ \/ /\ cnf' = Append(cnf, CompleteCnf[Len(cnf) + 1])
          /\ UNCHANGED <<outcome, cnf_open>>
       \/ /\ outcome' = "OSError"
          /\ cnf_open' = FALSE
          /\ UNCHANGED cnf
    /\ UNCHANGED pc
    /\ ForecastUnchanged
    /\ UNCHANGED <<queries, g, pt, box, seam, intervals, cycle, kv, downloads>>

\* the end of the with block of write_cnf
CloseCnf ==
    /\ prog = "forecast" /\ pc = "write" /\ outcome = "running"
    /\ Len(cnf) = Len(CompleteCnf)
    /\ cnf_open' = FALSE
    /\ pc' = "dry_run"
    /\ ForecastUnchanged
    /\ UNCHANGED <<outcome, queries, g, pt, box, seam, intervals, cycle, kv,
                   cnf, downloads>>

\* variant: the --dry-run flag is not looked at
DryRunIgnored ==
    /\ prog = "forecast" /\ pc = "dry_run" /\ outcome = "running"
    /\ pc' = "download"
    /\ ForecastUnchanged
    /\ UNCHANGED <<outcome, queries, g, pt, box, seam, intervals, cycle, kv,
                   cnf_open, cnf, downloads>>

\* lines 142-146
DryRun ==
    /\ prog = "forecast" /\ pc = "dry_run" /\ outcome = "running"
    /\ IF a.dry_run THEN outcome' = "returned" /\ UNCHANGED pc
       ELSE pc' = "download" /\ UNCHANGED outcome
    /\ ForecastUnchanged
    /\ UNCHANGED <<queries, g, pt, box, seam, intervals, cycle, kv, cnf_open,
                   cnf, downloads>>

\* subprocess.check_call(cmd), lines 149-150: the script cannot be started,
\* or it runs and exits with status zero or not
Download ==
    /\ prog = "forecast" /\ pc = "download" /\ outcome = "running"
    /\ \/ outcome' = "OSError" /\ UNCHANGED downloads
       \/ /\ downloads' = downloads + 1
          /\ outcome' \in {"returned", "CalledProcessError"}
    /\ UNCHANGED pc
    /\ ForecastUnchanged
    /\ UNCHANGED <<queries, g, pt, box, seam, intervals, cycle, kv, cnf_open, cnf>>

---------------------------------------------------------------------------
(* Inputs *)

Modes == ValidModes \cup {"diagonal"}

Radii == {Fl(k * KmScale) : k \in (-MaxRadiusKm)..MaxRadiusKm} \cup {NegZero, NaN}

CenterLats == {-90, 0, 53, 90}

CenterLons == {-180, -113, 0, 180, 270}

\* every centre is tried with a zero or NaN radius, where the centre decides
\* the result; other radii are tried from one centre
CornerArgs ==
    {x \in [lat : {Fl(la) : la \in CenterLats}, lon : {Fl(lo) : lo \in CenterLons},
            radius_km : Radii, mode : Modes] :
        (~x.radius_km.nan /\ x.radius_km.mag # 0) => (x.lat = Fl(53) /\ x.lon = Fl(-113))}

InitCorners ==
    /\ prog = "corners"
    /\ a \in CornerArgs
    /\ pc = "mode"
    /\ outcome = "running"
    /\ queries = <<>>
    /\ g = NoReply
    /\ pt = NoPoint
    /\ half_side_km = NaN
    /\ out = <<>>
    /\ corners = <<>>
    /\ box = <<>>
    /\ seam = FALSE
    /\ intervals = 0
    /\ cycle = 0
    /\ kv = <<>>
    /\ cnf_open = FALSE
    /\ cnf = <<>>
    /\ downloads = 0

IntervalHours == {0, 5}

StartHours == {7}

\* a command line argparse rejects is tried once; the second centre is
\* tried where it decides the box, with a zero radius
ForecastArgs ==
    {x \in [lat : {Fl(53)}, lon : {Fl(-113), Fl(270)}, radius_km : Radii,
            forecast_days : 1..MaxDays, interval_hours : IntervalHours,
            start_ok : BOOLEAN, start_date : StartHours,
            cycle_auto : BOOLEAN, cycle : {6}, dry_run : BOOLEAN,
            argv_ok : BOOLEAN] :
        /\ ~x.argv_ok => (/\ x.lon = Fl(-113) /\ x.radius_km = Fl(0)
                          /\ x.forecast_days = 1 /\ x.interval_hours = 5
                          /\ x.start_ok /\ x.cycle_auto /\ x.dry_run)
        /\ x.lon = Fl(270) => (~x.radius_km.nan /\ x.radius_km.mag = 0)}

InitForecast ==
    /\ prog = "forecast"
    /\ a \in ForecastArgs
    /\ pc = "cli"
    /\ outcome = "running"
    /\ queries = <<>>
    /\ g = NoReply
    /\ pt = NoPoint
    /\ half_side_km = NaN
    /\ out = <<>>
    /\ corners = <<>>
    /\ box = <<>>
    /\ seam = FALSE
    /\ intervals = 0
    /\ cycle = 0
    /\ kv = <<>>
    /\ cnf_open = FALSE
    /\ cnf = <<>>
    /\ downloads = 0

Init == InitCorners \/ InitForecast

Next ==
    \/ CornersEnter \/ CornersLoop \/ CornersReturn
    \/ Cli \/ Bounds \/ MakeIntervals \/ Cycle \/ BuildKv
    \/ OpenCnf \/ WriteCnf \/ CloseCnf \/ DryRun \/ Download

Spec == Init /\ [][Next]_vars

---------------------------------------------------------------------------
(* Properties *)

FiniteRadius == ~a.radius_km.nan

ZeroRadius == ~a.radius_km.nan /\ a.radius_km.mag = 0

PositiveRadius == ~a.radius_km.nan /\ ~a.radius_km.neg /\ a.radius_km.mag > 0

NegativeRadius == ~a.radius_km.nan /\ a.radius_km.neg /\ a.radius_km.mag > 0

BoxReturned == prog = "forecast" /\ box # <<>>

\* a wrapper has handed back a point for a finite solver reply
WrapperReturned == queries # <<>> /\ ~g.raised /\ ~g.lon2.nan

Names(cs) == [i \in 1..Len(cs) |-> cs[i].name]

Bearings(cs) == [i \in 1..Len(cs) |-> cs[i].bearing_deg]

Positive(x) == ~x.nan /\ ~x.neg /\ x.mag > 0

Negative(x) == ~x.nan /\ x.neg /\ x.mag > 0

\* C1: for a finite centre and radius, the box bounds returns has
\* top >= bottom and left <= right, whatever the four probes came back as.
C1_BoxOrdered ==
    (BoxReturned /\ FiniteRadius) =>
        (FGe(box[1], box[2]) /\ FGe(box[4], box[3]))

C1_SwapActed ==
    BoxReturned /\ FiniteRadius /\ seam /\ FGt(box[1], box[2])

\* C2: a box whose west probe lies beyond its east probe in the 0..360 frame
\* is returned so that the caller can tell it from every box whose probes
\* do not straddle the seam: no such box has the same four numbers.
C2_SeamBoxDistinguishable ==
    (BoxReturned /\ FiniteRadius /\ seam) =>
        \A lw \in LonGrid, le \in LonGrid :
            LET n == [lat |-> box[1], lon |-> Fl(0)]
                s == [lat |-> box[2], lon |-> Fl(0)]
                e == [lat |-> a.lat, lon |-> lon_norm(Fl(le))]
                w == [lat |-> a.lat, lon |-> lon_norm(Fl(lw))]
            IN  ~FGt(norm360(w.lon), norm360(e.lon)) => box_of(n, s, e, w) # box

\* C3 as stated: the longitude a wrapper hands back lies in (-180, 180], and
\* a raw solver longitude of 180 is handed back as 180.
C3_LonInHalfOpenEast ==
    WrapperReturned =>
        /\ Val(pt.lon) > -180 /\ Val(pt.lon) <= 180
        /\ (Val(g.lon2) = 180 => Val(pt.lon) = 180)

\* C3 amended: the longitude a wrapper hands back lies in [-180, 180), is
\* the solver's longitude modulo 360, and a raw solver longitude of 180 (or
\* -180) is handed back as -180; the latitude is the solver's.
C3_LonInHalfOpenWest ==
    WrapperReturned =>
        /\ Val(pt.lon) >= -180 /\ Val(pt.lon) < 180
        /\ (Val(pt.lon) - Val(g.lon2)) % 360 = 0
        /\ (Val(g.lon2) \in {180, -180} => Val(pt.lon) = -180)
        /\ pt.lat = g.lat2

C3_Raw180Returned == WrapperReturned /\ Val(g.lon2) = 180

ExpectedCorner(mode, i) ==
    Corner(corners_EN(half_side(a.radius_km, mode)[1])[i], out[i])

ExpectedQuery(mode, i) ==
    LET c == corners_EN(half_side(a.radius_km, mode)[1])[i]
    IN  Query(a.lat, a.lon, bearing_deg_from_EN(c[2], c[3]), Metres(Hypot(c[2], c[3])))

\* C5: a run in mode halfside or enclose-circle is, query by query and corner
\* by corner, the run the other of the two modes makes from the same centre
\* and radius on the same solver replies.
C5_HalfsideEqualsEnclose ==
    (prog = "corners" /\ a.mode \in {"halfside", "enclose-circle"} /\ pc # "mode") =>
        \A m \in {"halfside", "enclose-circle"} :
            /\ half_side_km = half_side(a.radius_km, m)[1]
            /\ Len(queries) <= 4 /\ Len(out) <= 4
            /\ \A i \in 1..Len(queries) : queries[i] = ExpectedQuery(m, i)
            /\ \A i \in 1..Len(out) : out[i] = ExpectedCorner(m, i)

C5_EncloseReturned ==
    /\ prog = "corners" /\ a.mode = "enclose-circle" /\ NegativeRadius
    /\ outcome = "returned" /\ Len(corners) = 4

\* C6: for a positive radius in mode halfside compute_corners returns four
\* corners NW, NE, SE, SW with bearings 315, 45, 135, 225, each 90 degrees
\* after the one before, and with pairwise equal distances.
C6_SquareBearings ==
    (prog = "corners" /\ a.mode = "halfside" /\ PositiveRadius /\ pc = "done") =>
        /\ outcome = "returned"
        /\ Len(corners) = 4
        /\ Names(corners) = <<"NW", "NE", "SE", "SW">>
        /\ Bearings(corners) = <<Fl(315), Fl(45), Fl(135), Fl(225)>>
        /\ \A i \in 1..3 :
             Val(corners[i + 1].bearing_deg) = (Val(corners[i].bearing_deg) + 90) % 360
        /\ \A i, j \in 1..4 :
             /\ corners[i].distance_km = corners[j].distance_km
             /\ Positive(corners[i].distance_km)

C6_HalfsideReturned ==
    /\ prog = "corners" /\ a.mode = "halfside" /\ PositiveRadius
    /\ outcome = "returned" /\ Len(corners) = 4

\* C7: with an unrecognised mode compute_corners ends in ValueError, having
\* bound no half side, issued no solver query and built or returned no corner.
C7_UnknownModeFails ==
    (prog = "corners" /\ a.mode \notin ValidModes) =>
        /\ half_side_km = NaN
        /\ queries = <<>> /\ out = <<>> /\ corners = <<>>
        /\ outcome \in {"running", "ValueError"}
        /\ pc = "done" => outcome = "ValueError"

C7_UnknownModeRaised ==
    prog = "corners" /\ a.mode \notin ValidModes /\ outcome = "ValueError"

\* C8: with a NaN radius the wrappers hand back no point: compute_corners
\* ends in an error and returns no list, and bounds returns no box.
C8_NonFiniteFails ==
    /\ (prog = "corners" /\ a.radius_km.nan /\ a.mode \in ValidModes) =>
          (out = <<>> /\ corners = <<>> /\ (pc = "done" => outcome = "GeodesicError"))
    /\ (prog = "forecast" /\ a.radius_km.nan) => box = <<>>

\* C9: for a negative radius and a recognised mode compute_corners raises
\* nothing and returns NW, NE, SE, SW with the signs inverted: NW east > 0,
\* north < 0, bearing 135; NE both < 0, 225; SE east < 0, north > 0, 315;
\* SW both > 0, 45; every distance is non-negative.
C9_NegativeRadiusInverts ==
    (prog = "corners" /\ NegativeRadius /\ a.mode \in ValidModes /\ pc = "done") =>
        /\ outcome = "returned"
        /\ Len(corners) = 4
        /\ Names(corners) = <<"NW", "NE", "SE", "SW">>
        /\ Positive(corners[1].east_km) /\ Negative(corners[1].north_km)
        /\ Negative(corners[2].east_km) /\ Negative(corners[2].north_km)
        /\ Negative(corners[3].east_km) /\ Positive(corners[3].north_km)
        /\ Positive(corners[4].east_km) /\ Positive(corners[4].north_km)
        /\ Bearings(corners) = <<Fl(135), Fl(225), Fl(315), Fl(45)>>
        /\ \A i \in 1..4 : FGe(corners[i].distance_km, Fl(0))

C9_NegativeReturned ==
    /\ prog = "corners" /\ NegativeRadius /\ a.mode = "inscribe-in-circle"
    /\ outcome = "returned" /\ Len(corners) = 4

\* the steps of main that come before the first write to the config file
BeforeWrite == {"cli", "bounds", "intervals", "cycle", "dates", "open"}

\* C10: main starts the downloader at most once, and only with the box
\* computed and the config file completely written and closed; never with
\* --dry-run; and a failure before the write leaves the file untouched and
\* the downloader unstarted.
C10_DownloadAfterConfig ==
    prog = "forecast" =>
        /\ downloads <= 1
        /\ downloads = 1 =>
             (box # <<>> /\ cnf = CompleteCnf /\ ~cnf_open /\ ~a.dry_run)
        /\ a.dry_run => downloads = 0
        /\ (outcome \notin {"running", "returned"} /\ pc \in BeforeWrite) =>
             (cnf = <<>> /\ ~cnf_open /\ downloads = 0)
        /\ box = <<>> => (cnf = <<>> /\ ~cnf_open /\ downloads = 0)

C10_Downloaded ==
    prog = "forecast" /\ downloads = 1 /\ outcome = "returned"

=============================================================================
